---- MODULE Spec2Model ----
(***************************************************************************)
(* Creator-AI-App: the LiveAssistant component (streaming voice pipeline)  *)
(* and the state of the other screens.                                     *)
(*                                                                         *)
(* The component is a React function component.  Its state lives in three  *)
(* useState cells (connectionState, transcripts, currentInterim) and in    *)
(* seven refs.  Event handlers run to completion on one thread; an `await` *)
(* ends the running step and the continuation is a later step.             *)
(*                                                                         *)
(* A handler reads a useState cell through the closure of the render that  *)
(* created it.  React commits the re-render at the end of the event that   *)
(* changed the state, so every step below commits (ReactCommit) except     *)
(* startConversation: a second start() issued by the same caller, from the *)
(* same closure, can run before the commit (Render).  The callbacks handed *)
(* to connectLive read the closure of the render that start() ran in.      *)
(*                                                                         *)
(* The k-th start() call that passes its guard creates the pair of audio   *)
(* contexts with index k and (when the API key is configured) the remote   *)
(* session with index k.  The microphone stream requested by session k's   *)
(* onopen and the processor that onopen creates carry index k as well.     *)
(*                                                                         *)
(* The module holds several specifications over the same handlers.  They   *)
(* differ in the inputs the environment supplies: Spec drives the session  *)
(* lifecycle and the outbound audio blocks, SpecPlayback adds inbound      *)
(* audio fragments and the output clock, SpecTranscript adds inbound       *)
(* transcript fragments, SpecSet follows the set of scheduled sources over *)
(* two sessions, SpecClose lets session.close() throw.  The outbound log,  *)
(* the playback cursor and the transcript cells are written by disjoint    *)
(* parts of the handlers.                                                  *)
(*                                                                         *)
(* The other screens share no state with LiveAssistant and have one        *)
(* specification each: SpecSaved (SavedContentContext), SpecEditor         *)
(* (VideoEditor), SpecChat (AiChat) and SpecVideo (generateVideo).         *)
(***************************************************************************)
EXTENDS Integers, Sequences, FiniteSets, TLC

\* ---------------------------------------------------------------- bounds
MaxSessions == 2        \* start() calls in Spec
MaxBlocks == 2          \* captured audio blocks
MaxSubSessions == 1     \* start() calls in SpecPlayback and SpecTranscript
MaxMsgs == 3            \* inbound messages in SpecTranscript
MaxFragments == 3       \* inbound audio fragments in SpecPlayback
MaxClock == 2           \* ticks of an output context's clock
MaxSetSessions == 2     \* start() calls in SpecSet
MaxSetFragments == 1    \* inbound audio fragments in SpecSet
MaxSetClock == 1        \* ticks of an output context's clock in SpecSet
MaxSaves == 3           \* saveItem calls in SpecSaved
MaxDuration == 3        \* longest video in SpecEditor, in slider steps
MaxSubmits == 2         \* accepted submits in SpecChat
MaxPolls == 3           \* "not done" answers of the remote to one call in SpecVideo
MaxCalls == 2           \* generateVideo calls in SpecVideo

Null == 0
PollInterval == 10000  \* milliseconds
None == "none"
Sessions == 1..MaxSessions
UserFrags == {"Hel", "lo"}
ModelFrags == {"Hi"}
Durations == {1, 2}    \* durations of audio fragments, in ticks
EmptyInterim == [user |-> <<>>, model |-> <<>>]

VARIABLES
  apiKey,                \* process.env.API_KEY is set (fixed for a run)
  closeFails,            \* session.close() throws (fixed for a run)
  mounted,               \* the component is mounted
  connectionState,       \* latest value of the useState cell
  rendered,              \* connectionState as the committed render's closures see it
  nStarts,               \* start() calls that passed the guard so far
  sessionPromiseRef, audioContextRef, outputAudioContextRef,
  streamRef, scriptProcessorRef,
  session,               \* per session: none/connecting/open/closing/closed/failed
  closeQueued,           \* sessions with a .then(s => s.close()) waiting for the open
  sessionCloses,         \* per session: number of session.close() calls
  mic,                   \* per session: state of the getUserMedia request made by onopen
  trackStops,            \* per stream: number of times its tracks were stopped
  proc,                  \* per processor: none/connected/disconnected
  procCtx,               \* per processor: the input context it was created on
  procDisconnects,       \* per processor: number of disconnect() calls
  inCloses, outCloses,   \* per context: number of close() calls
  nBlocks,               \* audio blocks captured so far
  captured,              \* log of onaudioprocess events: <<block, sessionPromiseRef then>>
  thenQueue,             \* per session: blocks whose .then callback waits for the open
  sent,                  \* per session: blocks passed to sendRealtimeInput, in call order
  transcripts,           \* useState cell: finalized turns
  currentInterim,        \* useState cell: latest value
  renderedInterim,       \* currentInterim as the committed render's closures see it
  capturedInterim,       \* per session: currentInterim in the closure of its handleMessage
  turnText,              \* the fragments received since the last turn-complete signal
  expected,              \* per turn-complete signal, the fragments received for that turn
  nMsgs,                 \* inbound messages handled so far
  nextStartTimeRef,      \* the playback cursor
  sourcesRef,            \* ids of the buffer sources in the set
  clock,                 \* currentTime of the output context the ref holds
  decoding,              \* handleMessage calls suspended at await decodeAudioData; underrun:
                         \* the clock was past the cursor on arrival; at: the clock then
  scheduled,             \* log of source.start() calls; late: start time before the clock
  failed,                \* ids of the fragments whose decodeAudioData rejected
  ended,                 \* ids of the sources whose 'ended' event was delivered
  errStream,             \* the stream that was live when onerror last ran while connected
  lastOp,                \* the handler that ran last
  provider,              \* a SavedContentProvider is mounted
  savedItems,            \* SavedContentProvider's useState cell
  storage,               \* localStorage: the value under 'savedContent'
  nextId,                \* saveItem calls so far, plus one
  savedOp,               \* the SavedContentProvider operation that ran last
  savedArg,              \* the id passed to the last deleteItem; 0 after any other operation
  file,                  \* VideoEditor: the selected file
  metaPending,           \* VideoEditor: the video element has not yet fired loadedmetadata
  duration,              \* VideoEditor: useState cell
  trimStart, trimEnd,    \* VideoEditor: useState cells, in slider steps
  project,               \* localStorage: the value under 'videoEditorProject'
  error,                 \* VideoEditor: useState cell
  editorOp,              \* the VideoEditor handler that ran last
  messages,              \* AiChat: useState cell, after the greeting
  input,                 \* AiChat: useState cell, a sequence of characters
  isLoading,             \* AiChat: useState cell
  chatInstance,          \* useAistudio.ts: the module's chat client exists
  requests,              \* log of the accepted submits: the text and how the call ended
  chatOp,                \* the AiChat handler that ran last
  pc,                    \* generateVideo: where the call stands
  request,               \* generateVideo: the request of the running call
  operation,             \* generateVideo: the operation as last returned by the remote
  polls,                 \* generateVideo: getVideosOperation requests made by the call
  waited,                \* generateVideo: milliseconds the call has slept
  thrownBy,              \* generateVideo: the statement that threw, or "none"
  nCalls                 \* generateVideo calls so far

envVars == <<apiKey, closeFails>>
savedVars == <<provider, savedItems, storage, nextId, savedOp, savedArg>>
editorVars == <<file, metaPending, duration, trimStart, trimEnd, project, error, editorOp>>
chatVars == <<messages, input, isLoading, chatInstance, requests, chatOp>>
videoVars == <<pc, request, operation, polls, waited, thrownBy, nCalls>>
screenVars == <<savedVars, editorVars, chatVars, videoVars>>
\* What no handler of LiveAssistant writes.
outsideVars == <<envVars, screenVars>>
reactVars == <<connectionState, rendered>>
refVars == <<sessionPromiseRef, audioContextRef, outputAudioContextRef, streamRef,
             scriptProcessorRef>>
resVars == <<session, closeQueued, sessionCloses, trackStops, proc, procDisconnects,
             inCloses, outCloses>>
outVars == <<nBlocks, captured, thenQueue, sent>>
ghostVars == <<turnText, expected>>
textVars == <<transcripts, currentInterim, renderedInterim, capturedInterim, ghostVars>>
playVars == <<nextStartTimeRef, sourcesRef, clock, decoding, scheduled, failed,
             ended>>
liveVars == <<mounted, nStarts, mic, procCtx, nMsgs, reactVars, refVars, resVars,
              outVars, textVars, playVars, errStream, lastOp>>
vars == <<outsideVars, liveVars>>

\* ------------------------------------------------------------- helpers
\* The first write of a handler kept instead of the last.
First(s) == s[1]

\* Writes to one useState cell within a handler are batched: the last one is
\* the value committed.
Last(s) == s[Len(s)]
Max(a, b) == IF a >= b THEN a ELSE b

\* AudioContext.state !== 'closed' for the context with index c
CtxOpen(closes, c) == closes[c] = 0

\* The promise returned by connectLive is fulfilled once the session has opened.
Fulfilled(s, k) == s[k] \in {"open", "closing", "closed"}

\* LiveAssistant.tsx:10-20: the component as mounted.
InitPipeline ==
  /\ mounted = TRUE
  /\ connectionState = "disconnected"
  /\ rendered = "disconnected"
  /\ nStarts = 0
  /\ sessionPromiseRef = Null
  /\ audioContextRef = Null
  /\ outputAudioContextRef = Null
  /\ streamRef = Null
  /\ scriptProcessorRef = Null
  /\ session = [k \in Sessions |-> "none"]
  /\ closeQueued = {}
  /\ sessionCloses = [k \in Sessions |-> 0]
  /\ mic = [k \in Sessions |-> "none"]
  /\ trackStops = [k \in Sessions |-> 0]
  /\ proc = [k \in Sessions |-> "none"]
  /\ procCtx = [k \in Sessions |-> Null]
  /\ procDisconnects = [k \in Sessions |-> 0]
  /\ inCloses = [k \in Sessions |-> 0]
  /\ outCloses = [k \in Sessions |-> 0]
  /\ nBlocks = 0
  /\ captured = <<>>
  /\ thenQueue = [k \in Sessions |-> <<>>]
  /\ sent = [k \in Sessions |-> <<>>]
  /\ transcripts = <<>>
  /\ currentInterim = EmptyInterim
  /\ renderedInterim = EmptyInterim
  /\ capturedInterim = [k \in Sessions |-> EmptyInterim]
  /\ turnText = EmptyInterim
  /\ expected = <<>>
  /\ nMsgs = 0
  /\ nextStartTimeRef = 0
  /\ sourcesRef = {}
  /\ clock = 0
  /\ decoding = {}
  /\ scheduled = <<>>
  /\ failed = {}
  /\ ended = {}
  /\ errStream = Null
  /\ lastOp = "init"

\* SavedContentContext.tsx: no provider has been created, nothing is stored.
NoValue == [present |-> FALSE, text |-> <<>>]
InitSavedIdle ==
  /\ provider = FALSE
  /\ savedItems = <<>>
  /\ storage = NoValue
  /\ nextId = 1
  /\ savedOp = "init"
  /\ savedArg = 0

\* part_001:207-226: the VideoEditor as mounted, with no project stored.
NoFile == [name |-> "", dur |-> 0]
NoProject == [fileName |-> "", trimStart |-> 0, trimEnd |-> 0]
InitEditor ==
  /\ file = NoFile
  /\ metaPending = FALSE
  /\ duration = 0
  /\ trimStart = 0
  /\ trimEnd = 0
  /\ project = NoProject
  /\ error = "null"
  /\ editorOp = "init"

\* ContentAnalyzer.tsx:267-275: the AiChat screen as mounted.  The greeting is
\* a constant first message and is left out of the list.
InitChat ==
  /\ messages = <<>>
  /\ input = <<>>
  /\ isLoading = FALSE
  /\ chatInstance = FALSE
  /\ requests = <<>>
  /\ chatOp = "init"

\* useAistudio.ts:160-204: generateVideo has not been called.
NoRequest == [aspectRatio |-> "", image |-> FALSE]
NoOperation == [done |-> FALSE, link |-> FALSE]
InitVideo ==
  /\ pc = "idle"
  /\ request = NoRequest
  /\ operation = NoOperation
  /\ polls = 0
  /\ waited = 0
  /\ thrownBy = "none"
  /\ nCalls = 0

\* The other screens before anything is done on them.
InitScreens == InitSavedIdle /\ InitEditor /\ InitChat /\ InitVideo

Init ==
  /\ apiKey \in BOOLEAN
  /\ closeFails = FALSE
  /\ InitPipeline
  /\ InitScreens

\* React commits the render at the end of the event: closures created from now
\* on see the latest values of the useState cells.
ReactCommit ==
  /\ rendered' = connectionState'
  /\ renderedInterim' = currentInterim'

\* ------------------------------------------------------ stopConversation
\* A stop() that releases the resource and keeps the ref.
RefKeptAfterRelease(ref) == ref

\* LiveAssistant.tsx:25,29,33: the ref is nulled once its resource is released
RefAfterRelease(ref) == Null

\* LiveAssistant.tsx:35,38: the close() guard of an audio context
ShouldCloseCtx(ref, closes) == ref # Null /\ CtxOpen(closes, ref)

\* A stop() that drops the stream without stopping its tracks.
TrackStopsSkipped(ref, stops) == stops

\* LiveAssistant.tsx:27-28: every track of the stream the ref holds is stopped
TrackStopsAfter(ref, stops) ==
  IF ref # Null THEN [stops EXCEPT ![ref] = @ + 1] ELSE stops

\* A stop() that disconnects nothing.
ProcLeftConnected(ref, p) == p

\* LiveAssistant.tsx:31-32: the processor the ref holds is disconnected
ProcAfterDisconnect(ref, p) ==
  IF ref # Null THEN [p EXCEPT ![ref] = "disconnected"] ELSE p

\* A stop() that leaves the useState cell as it finds it.
StateLeftByStop == connectionState

\* LiveAssistant.tsx:41
StateAfterStop == "disconnected"

\* A stop() that calls session.close() itself, so that an exception of close()
\* ends stopConversation at line 24.
AbortedIfCloseThrows(called) == called /\ closeFails

\* LiveAssistant.tsx:24: close() is called in a .then callback, which runs after
\* stopConversation has returned: an exception of close() rejects the promise
\* that .then returned, which nothing observes, and never reaches the lines
\* that follow.
AbortedByClose(called) == FALSE

\* LiveAssistant.tsx:24: a session whose close() threw stays open.
CloseResult == IF closeFails THEN "open" ELSE "closing"

\* LiveAssistant.tsx:22-42.  s0 and q0 are session and closeQueued as the calling
\* handler has left them; everything but the useState cell is written here.
stopConversation(s0, q0) ==
  LET called == sessionPromiseRef # Null /\ Fulfilled(s0, sessionPromiseRef)
      ab == AbortedByClose(called)
      After(ref) == IF ab THEN ref ELSE RefAfterRelease(ref)
  IN
  /\ sessionPromiseRef' = After(sessionPromiseRef)
  /\ IF sessionPromiseRef # Null
       THEN LET k == sessionPromiseRef IN
            IF Fulfilled(s0, k)
              THEN /\ sessionCloses' = [sessionCloses EXCEPT ![k] = @ + 1]
                   /\ session' = [s0 EXCEPT ![k] = IF @ = "open" THEN CloseResult ELSE @]
                   /\ closeQueued' = q0
              ELSE /\ closeQueued' = IF s0[k] = "connecting" THEN q0 \cup {k} ELSE q0
                   /\ session' = s0
                   /\ UNCHANGED sessionCloses
       ELSE /\ session' = s0
            /\ closeQueued' = q0
            /\ UNCHANGED sessionCloses
  /\ streamRef' = After(streamRef)
  /\ trackStops' = IF ab THEN trackStops ELSE TrackStopsAfter(streamRef, trackStops)
  /\ scriptProcessorRef' = After(scriptProcessorRef)
  /\ proc' = IF ab THEN proc ELSE ProcAfterDisconnect(scriptProcessorRef, proc)
  /\ procDisconnects' = IF scriptProcessorRef # Null /\ ~ab
                           THEN [procDisconnects EXCEPT ![scriptProcessorRef] = @ + 1]
                           ELSE procDisconnects
  /\ inCloses' = IF ShouldCloseCtx(audioContextRef, inCloses) /\ ~ab
                   THEN [inCloses EXCEPT ![audioContextRef] = @ + 1] ELSE inCloses
  /\ outCloses' = IF ShouldCloseCtx(outputAudioContextRef, outCloses) /\ ~ab
                    THEN [outCloses EXCEPT ![outputAudioContextRef] = @ + 1] ELSE outCloses
  /\ UNCHANGED <<audioContextRef, outputAudioContextRef>>

\* LiveAssistant.tsx:160-166: the Stop button, rendered only while the committed
\* render shows 'connected'.
UserStop ==
  /\ mounted /\ rendered = "connected"
  /\ stopConversation(session, closeQueued)
  /\ connectionState' = StateAfterStop
  /\ lastOp' = "stop"
  /\ UNCHANGED <<errStream, outsideVars,
                 mounted, nStarts, mic, procCtx, nMsgs, outVars, transcripts,
                 currentInterim, capturedInterim, ghostVars,
                 playVars>>
  /\ ReactCommit

\* LiveAssistant.tsx:136-141: the effect cleanup calls stopConversation on unmount.
Unmount ==
  /\ mounted
  /\ mounted' = FALSE
  /\ stopConversation(session, closeQueued)
  /\ connectionState' = StateAfterStop
  /\ lastOp' = "unmount"
  /\ UNCHANGED <<errStream, outsideVars,
                 nStarts, mic, procCtx, nMsgs, outVars, transcripts,
                 currentInterim, capturedInterim, ghostVars,
                 playVars>>
  /\ ReactCommit

\* The commit that follows a start().
Render ==
  /\ mounted
  /\ rendered # connectionState \/ renderedInterim # currentInterim
  /\ rendered' = connectionState
  /\ renderedInterim' = currentInterim
  /\ lastOp' = "render"
  /\ UNCHANGED <<errStream, outsideVars,
                 mounted, nStarts, mic, procCtx, nMsgs, connectionState, refVars,
                 resVars, outVars, transcripts, currentInterim, capturedInterim, ghostVars,
                 playVars>>

\* ----------------------------------------------------- startConversation
\* LiveAssistant.tsx:45: the guard reads connectionState through the closure.
StartGuard == rendered = "disconnected"

\* LiveAssistant.tsx:45: start() returns at once.
StartIgnored ==
  /\ mounted /\ ~StartGuard
  /\ lastOp' = "startIgnored"
  /\ UNCHANGED <<errStream, outsideVars,
                 mounted, nStarts, mic, procCtx, nMsgs, reactVars, refVars,
                 resVars, outVars, textVars, playVars>>

\* A start() that keeps the set of sources.
SourcesKeptByStart == sourcesRef

\* LiveAssistant.tsx:54: sourcesRef.current.clear()
SourcesAfterStart == {}

\* A start() whose catch block does not write the state.
StartWritesWithoutCatch == <<"connecting">>

\* LiveAssistant.tsx:46,90: the writes of a start() whose connectLive call throws
StartWritesOnThrow == <<"connecting", "error">>

\* LiveAssistant.tsx:44-92.  getGenAI throws when no API key is set
\* (useAistudio.ts:64-69); the catch block then sets 'error'.
startConversation(limit) ==
  /\ mounted /\ StartGuard /\ nStarts < limit
  /\ LET k == nStarts + 1 IN
     /\ nStarts' = k
     /\ transcripts' = <<>>
     /\ currentInterim' = EmptyInterim
     /\ turnText' = EmptyInterim
     /\ expected' = <<>>
     /\ audioContextRef' = k
     /\ outputAudioContextRef' = k
     /\ clock' = 0
     /\ nextStartTimeRef' = 0
     /\ sourcesRef' = SourcesAfterStart
     /\ IF apiKey
          THEN /\ sessionPromiseRef' = k
               /\ session' = [session EXCEPT ![k] = "connecting"]
               /\ capturedInterim' = [capturedInterim EXCEPT ![k] = renderedInterim]
               /\ connectionState' = "connecting"
          ELSE /\ connectionState' = Last(StartWritesOnThrow)
               /\ UNCHANGED <<sessionPromiseRef, session, capturedInterim>>
  /\ lastOp' = "start"
  /\ UNCHANGED <<errStream, outsideVars,
                 mounted, mic, procCtx, nMsgs, rendered, renderedInterim,
                 streamRef, scriptProcessorRef, closeQueued, sessionCloses, trackStops,
                 proc, procDisconnects, inCloses, outCloses, outVars, decoding, scheduled,
                 failed, ended>>

\* ------------------------------------------------------------- callbacks
\* LiveAssistant.tsx:58-60: the remote session opened; onopen runs up to its await.
\* The connectLive promise is fulfilled: the callbacks waiting on it run in the
\* order they were registered, a queued session.close() last.
onopen(k) ==
  /\ session[k] = "connecting"
  /\ connectionState' = "connected"
  /\ mic' = [mic EXCEPT ![k] = "pending"]
  /\ IF k \in closeQueued
       THEN /\ session' = [session EXCEPT ![k] = CloseResult]
            /\ sessionCloses' = [sessionCloses EXCEPT ![k] = @ + 1]
       ELSE /\ session' = [session EXCEPT ![k] = "open"]
            /\ UNCHANGED sessionCloses
  /\ closeQueued' = closeQueued \ {k}
  /\ sent' = [sent EXCEPT ![k] = @ \o thenQueue[k]]
  /\ thenQueue' = [thenQueue EXCEPT ![k] = <<>>]
  /\ lastOp' = "onopen"
  /\ UNCHANGED <<errStream, outsideVars,
                 mounted, nStarts, procCtx, nMsgs, refVars, trackStops, proc,
                 procDisconnects, inCloses, outCloses, nBlocks, captured, transcripts,
                 currentInterim, capturedInterim, ghostVars,
                 playVars>>
  /\ ReactCommit

\* LiveAssistant.tsx:60-74: getUserMedia resolved; the rest of onopen runs.
\* Creating a node on a closed context either throws InvalidStateError or yields
\* a node that never renders, depending on the browser.
micGranted(k) ==
  /\ mic[k] = "pending"
  /\ mic' = [mic EXCEPT ![k] = "granted"]
  /\ streamRef' = k
  /\ \E throws \in BOOLEAN :
       /\ throws => ~CtxOpen(inCloses, audioContextRef)
       /\ IF throws
            THEN UNCHANGED <<scriptProcessorRef, proc, procCtx>>
            ELSE /\ scriptProcessorRef' = k
                 /\ proc' = [proc EXCEPT ![k] = "connected"]
                 /\ procCtx' = [procCtx EXCEPT ![k] = audioContextRef]
  /\ lastOp' = "micGranted"
  /\ UNCHANGED <<errStream, outsideVars,
                 mounted, nStarts, nMsgs, reactVars, sessionPromiseRef,
                 audioContextRef, outputAudioContextRef, session, closeQueued,
                 sessionCloses, trackStops, procDisconnects, inCloses, outCloses,
                 outVars, textVars, playVars>>

\* LiveAssistant.tsx:60: getUserMedia rejected; the async onopen rejects and
\* nothing handles the rejection.
micDenied(k) ==
  /\ mic[k] = "pending"
  /\ mic' = [mic EXCEPT ![k] = "denied"]
  /\ lastOp' = "micDenied"
  /\ UNCHANGED <<errStream, outsideVars,
                 mounted, nStarts, procCtx, nMsgs, reactVars, refVars, resVars,
                 outVars, textVars, playVars>>

\* LiveAssistant.tsx:79-83: setConnectionState('error'), then stopConversation()
\* sets the cell again; the last write of the handler is the one committed.
OnErrorWrites == <<"error", StateAfterStop>>

onerror(k) ==
  /\ session[k] \in {"connecting", "open", "closing"}
  /\ stopConversation(session, closeQueued)
  /\ connectionState' = Last(OnErrorWrites)
  /\ errStream' = IF streamRef # Null /\ trackStops[streamRef] = 0
                       /\ connectionState = "connected"
                    THEN streamRef ELSE errStream
  /\ lastOp' = "onerror"
  /\ UNCHANGED <<outsideVars, mounted, nStarts, mic, procCtx, nMsgs, outVars, transcripts,
                 currentInterim, capturedInterim, ghostVars,
                 playVars>>
  /\ ReactCommit

\* LiveAssistant.tsx:84-86.  The transport closed: after a session.close(), by the
\* remote's choice, or because the connection attempt failed (the connectLive
\* promise is then rejected and the callbacks waiting on it never run).
onclose(k) ==
  /\ session[k] \in {"connecting", "open", "closing"}
  /\ stopConversation(
       [session EXCEPT ![k] = IF @ = "connecting" THEN "failed" ELSE "closed"],
       closeQueued \ {k})
  /\ thenQueue' = IF session[k] = "connecting"
                    THEN [thenQueue EXCEPT ![k] = <<>>] ELSE thenQueue
  /\ connectionState' = StateAfterStop
  /\ lastOp' = "onclose"
  /\ UNCHANGED <<errStream, outsideVars,
                 mounted, nStarts, mic, procCtx, nMsgs, nBlocks, captured, sent,
                 transcripts, currentInterim, capturedInterim, ghostVars,
                 playVars>>
  /\ ReactCommit

\* ------------------------------------------------------- outbound frames
\* A send that puts the newest block first.
SendToFront(k, b, s, q) ==
  IF s[k] # <<>> \/ session[k] \in {"open", "closing", "closed"}
    THEN <<[s EXCEPT ![k] = <<b>> \o @], q>>
    ELSE <<s, [q EXCEPT ![k] = <<b>> \o @]>>

\* LiveAssistant.tsx:67-71: the block goes to the session the ref holds now.
\* On a fulfilled promise the callback runs before any later event; on a pending
\* one it waits, in registration order; on a rejected one it never runs.
SendTo(k, b, s, q) ==
  IF Fulfilled(session, k) THEN <<[s EXCEPT ![k] = Append(@, b)], q>>
  ELSE IF session[k] = "connecting" THEN <<s, [q EXCEPT ![k] = Append(@, b)]>>
  ELSE <<s, q>>

\* LiveAssistant.tsx:64-72: processor p delivers one block of 4096 samples.
onaudioprocess(p) ==
  /\ proc[p] = "connected" /\ CtxOpen(inCloses, procCtx[p])
  /\ nBlocks < MaxBlocks
  /\ LET b == nBlocks + 1 IN
     /\ nBlocks' = b
     /\ captured' = Append(captured, <<b, sessionPromiseRef>>)
     /\ IF sessionPromiseRef # Null
          THEN LET r == SendTo(sessionPromiseRef, b, sent, thenQueue) IN
               /\ sent' = r[1]
               /\ thenQueue' = r[2]
          ELSE UNCHANGED <<sent, thenQueue>>
  /\ lastOp' = "onaudioprocess"
  /\ UNCHANGED <<errStream, outsideVars,
                 mounted, nStarts, mic, procCtx, nMsgs, reactVars, refVars,
                 resVars, textVars, playVars>>

\* -------------------------------------------------------- inbound messages
\* The fragments a message carries, added to those received for the turn so far.
Received(turn, inT, outT) ==
  [user |-> IF inT = None THEN turn.user ELSE Append(turn.user, inT),
   model |-> IF outT = None THEN turn.model ELSE Append(turn.model, outT)]

\* An append that files the fragments under the other side.
AppendFragmentSwapped(interim, inT, outT) ==
  [user |-> IF outT = None THEN interim.user ELSE Append(interim.user, outT),
   model |-> IF inT = None THEN interim.model ELSE Append(interim.model, inT)]

\* LiveAssistant.tsx:110-115: the updater form appends to the latest value.
AppendFragment(interim, inT, outT) ==
  LET i1 == IF inT # None THEN [interim EXCEPT !.user = @ \o <<inT>>] ELSE interim
  IN  IF outT # None THEN [i1 EXCEPT !.model = @ \o <<outT>>] ELSE i1

\* LiveAssistant.tsx:117: the pair appended on turnComplete is read from
\* currentInterim of the closure, not from the latest value.
FinalizedPair(k) == capturedInterim[k]

\* LiveAssistant.tsx:123: the cursor is moved up to the output clock.
CursorOnArrival(cursor, now) == Max(cursor, now)

\* LiveAssistant.tsx:106-124: one inbound message of session k, handled up to
\* the await.  inT/outT: the text of inputTranscription/outputTranscription or
\* None; tc: turnComplete; dur: the duration of the audio fragment, 0 for none.
handleMessage(k, inT, outT, tc, dur) ==
  /\ session[k] \in {"open", "closing"}
  /\ nMsgs' = nMsgs + 1
  /\ IF tc
       THEN /\ transcripts' = Append(transcripts, FinalizedPair(k))
            /\ currentInterim' = EmptyInterim
            /\ expected' = Append(expected, Received(turnText, inT, outT))
            /\ turnText' = EmptyInterim
       ELSE /\ currentInterim' = AppendFragment(currentInterim, inT, outT)
            /\ turnText' = Received(turnText, inT, outT)
            /\ UNCHANGED <<transcripts, expected>>
  /\ IF dur # 0 /\ outputAudioContextRef # Null
       THEN /\ nextStartTimeRef' =
                 CursorOnArrival(nextStartTimeRef, clock)
            /\ decoding' = decoding \cup
                 {[id |-> nMsgs + 1, k |-> k, dur |-> dur,
                   underrun |-> clock > nextStartTimeRef,
                   at |-> IF clock > nextStartTimeRef THEN clock ELSE 0]}
       ELSE UNCHANGED <<nextStartTimeRef, decoding>>
  /\ lastOp' = "onmessage"
  /\ UNCHANGED <<errStream, outsideVars, mounted, nStarts, mic, procCtx, connectionState,
                 refVars, resVars, outVars, capturedInterim, sourcesRef, clock,
                 scheduled, failed, ended>>
  /\ ReactCommit

\* LiveAssistant.tsx:125-131: decodeAudioData resolved; the rest of handleMessage
\* runs with the refs as they are now (stop() closes the output context and
\* keeps the ref).  With the output ref null line 125 throws and nothing is
\* scheduled.
decodeDone(m) ==
  /\ m \in decoding
  /\ decoding' = decoding \ {m}
  /\ IF outputAudioContextRef = Null
       THEN UNCHANGED <<scheduled, nextStartTimeRef, sourcesRef>>
       ELSE /\ scheduled' = Append(scheduled,
                 [id |-> m.id, k |-> m.k, dur |-> m.dur, underrun |-> m.underrun,
                  at |-> m.at, start |-> nextStartTimeRef,
                  ctx |-> outputAudioContextRef, late |-> nextStartTimeRef < clock])
            /\ nextStartTimeRef' = nextStartTimeRef + m.dur
            /\ sourcesRef' = sourcesRef \cup {m.id}
  /\ lastOp' = "decodeDone"
  /\ UNCHANGED <<errStream, outsideVars, mounted, nStarts, mic, procCtx, nMsgs, reactVars,
                 refVars, resVars, outVars, textVars, clock, failed, ended>>

\* LiveAssistant.tsx:124: decodeAudioData rejected; handleMessage rejects and
\* nothing handles the rejection.
decodeFailed(m) ==
  /\ m \in decoding
  /\ decoding' = decoding \ {m}
  /\ failed' = failed \cup {m.id}
  /\ lastOp' = "decodeFailed"
  /\ UNCHANGED <<errStream, outsideVars, mounted, nStarts, mic, procCtx, nMsgs, reactVars,
                 refVars, resVars, outVars, textVars, nextStartTimeRef, sourcesRef,
                 clock, scheduled, ended>>

\* LiveAssistant.tsx:128: the 'ended' listener of a source that played to its end.
sourceEnded(i) ==
  /\ i \in 1..Len(scheduled)
  /\ LET e == scheduled[i] IN
     /\ e.id \in sourcesRef
     /\ CtxOpen(outCloses, e.ctx)
     /\ e.ctx = outputAudioContextRef => clock >= e.start + e.dur
     /\ sourcesRef' = sourcesRef \ {e.id}
     /\ ended' = ended \cup {e.id}
  /\ lastOp' = "ended"
  /\ UNCHANGED <<errStream, outsideVars, mounted, nStarts, mic, procCtx, nMsgs, reactVars,
                 refVars, resVars, outVars, textVars, nextStartTimeRef, clock, decoding,
                 scheduled, failed>>

\* AudioContext.currentTime of the output context the ref holds advances while
\* that context is running.  (A context that start() has replaced without
\* closing it keeps running on a clock of its own, which is not tracked: its
\* sources may end at any time.)
Tick ==
  /\ outputAudioContextRef # Null /\ CtxOpen(outCloses, outputAudioContextRef)
  /\ clock < MaxClock
  /\ clock' = clock + 1
  /\ UNCHANGED <<errStream, outsideVars, mounted, nStarts, mic, procCtx, nMsgs, reactVars,
                 refVars, resVars, outVars, textVars, nextStartTimeRef, sourcesRef,
                 decoding, scheduled, failed, ended, lastOp>>

\* The session side of the lifecycle: everything that decides which session is
\* open and which output context the refs hold.
SessionSteps(limit) ==
  \/ startConversation(limit)
  \/ UserStop
  \/ Unmount
  \/ Render
  \/ \E k \in Sessions : onopen(k)
  \/ \E k \in Sessions : onerror(k)
  \/ \E k \in Sessions : onclose(k)

\* The microphone side: the outcome of getUserMedia and the captured blocks.
MicrophoneSteps ==
  \/ \E k \in Sessions : micGranted(k)
  \/ \E k \in Sessions : micDenied(k)
  \/ \E p \in Sessions : onaudioprocess(p)

Next ==
  \/ SessionSteps(MaxSessions)
  \/ StartIgnored
  \/ MicrophoneSteps

Spec == Init /\ [][Next]_vars

\* Inbound audio fragments.  getUserMedia stays pending here: its outcome writes
\* streamRef, scriptProcessorRef, mic, proc and procCtx only, and no handler of
\* the inbound side reads them.
NextPlayback ==
  \/ SessionSteps(MaxSubSessions)
  \/ \E k \in Sessions, dur \in Durations :
        nMsgs < MaxFragments /\ handleMessage(k, None, None, FALSE, dur)
  \/ \E m \in decoding : decodeDone(m)
  \/ \E m \in decoding : decodeFailed(m)
  \/ \E i \in 1..Len(scheduled) : sourceEnded(i)
  \/ Tick

SpecPlayback == Init /\ [][NextPlayback]_vars

\* Inbound transcript fragments and turn-complete signals.
NextTranscript ==
  \/ SessionSteps(MaxSubSessions)
  \/ \E k \in Sessions, inT \in UserFrags \cup {None}, outT \in ModelFrags \cup {None},
        tc \in BOOLEAN :
        nMsgs < MaxMsgs /\ handleMessage(k, inT, outT, tc, 0)

SpecTranscript == Init /\ [][NextTranscript]_vars

\* The set of scheduled sources over more than one start().  Every fragment
\* lasts one tick: the set holds handles, and a duration only decides when the
\* 'ended' event can come.
NextSet ==
  \/ SessionSteps(MaxSetSessions)
  \/ \E k \in Sessions :
        nMsgs < MaxSetFragments /\ handleMessage(k, None, None, FALSE, 1)
  \/ \E m \in decoding : decodeDone(m)
  \/ \E i \in 1..Len(scheduled) : sourceEnded(i)
  \/ clock < MaxSetClock /\ Tick

SpecSet == Init /\ [][NextSet]_vars
\* ------------------------------------------------------------------ claims
Released(cnt) == \A k \in Sessions : cnt[k] <= 1

\* A step that, taken while the state is connecting or connected, opens no
\* remote session and creates no audio context.
NoStartWhileActive ==
  connectionState \in {"connecting", "connected"}
    => /\ nStarts' = nStarts
       /\ audioContextRef' = audioContextRef
       /\ outputAudioContextRef' = outputAudioContextRef
       /\ \A k \in Sessions : session[k] = "none" => session'[k] = "none"

\* C1: start() invoked while the state is connecting or connected is a no-op:
\* no step taken in such a state opens another remote session or creates
\* another pair of audio contexts.
C1_StartIsNoOpWhenActive == [][NoStartWhileActive]_vars

\* C2: stop() is idempotent and safe when never started: whenever a handler
\* that calls stopConversation has run (the Stop button, the unmount cleanup,
\* onerror, onclose) the state is disconnected and the session, stream and
\* processor refs are null, and over all calls every session is closed at most
\* once, every stream stopped at most once, every processor disconnected at most
\* once and every audio context closed at most once.
C2_StopIdempotent ==
  /\ lastOp \in {"stop", "unmount", "onerror", "onclose"}
       => /\ connectionState = "disconnected"
          /\ sessionPromiseRef = Null /\ streamRef = Null /\ scriptProcessorRef = Null
  /\ Released(sessionCloses) /\ Released(trackStops) /\ Released(procDisconnects)
  /\ Released(inCloses) /\ Released(outCloses)

\* C2 witness: stop ran at unmount and again from onclose, after a session had
\* acquired every kind of resource, each released exactly once.
C2_Witness ==
  /\ ~mounted /\ lastOp = "onclose"
  /\ \E k \in Sessions :
       /\ session[k] = "closed" /\ sessionCloses[k] = 1 /\ trackStops[k] = 1
       /\ procDisconnects[k] = 1 /\ inCloses[k] = 1 /\ outCloses[k] = 1

\* C7: on microphone permission denial (the request made by the onopen of the
\* session the pipeline holds is rejected) the state ends in error and no
\* frame-capture processor is created for that session.
C7_DenialEndsInError ==
  \A k \in Sessions :
    (lastOp = "micDenied" /\ mic[k] = "denied" /\ sessionPromiseRef = k
       /\ session[k] = "open")
      => (connectionState = "error" /\ proc[k] = "none")

\* A step of onerror taken in state connected ends in state error.
ErrorStepEndsInError ==
  (connectionState = "connected" /\ lastOp' = "onerror") => connectionState' = "error"

\* C8: once the handler of a remote error signal received while connected has
\* finished, the state is error.
C8_ErrorStateAfterRemoteError == [][ErrorStepEndsInError]_vars

\* C9: the stream that was live when a remote error arrived in state connected
\* has had its tracks stopped exactly once, whatever follows (a close signal,
\* stop(), unmount); no stream is ever stopped twice.
C9_StreamStoppedOnceOnError ==
  /\ errStream # Null => trackStops[errStream] = 1
  /\ Released(trackStops)

\* C9 witness: the remote error arrived with a live stream while connected, and
\* the close signal of that session followed.
C9_Witness ==
  /\ errStream # Null /\ lastOp = "onclose" /\ session[errStream] = "closed"

CapturedFor(k) ==
  LET f[i \in 0..Len(captured)] ==
        IF i = 0 THEN <<>>
        ELSE IF captured[i][2] = k THEN Append(f[i - 1], captured[i][1]) ELSE f[i - 1]
  IN f[Len(captured)]

\* C10: for every session whose connection was established or is still being
\* established, the blocks passed to sendRealtimeInput, followed by the blocks
\* still waiting for the open, are exactly the blocks captured for that session,
\* in capture order, each once.
C10_OutboundOrder ==
  \A k \in Sessions :
    session[k] # "failed" => sent[k] \o thenQueue[k] = CapturedFor(k)

\* C10 witness: two blocks captured in one session were sent as B1, B2.
C10_Witness ==
  \E k \in Sessions : sent[k] = <<1, 2>> /\ lastOp = "onaudioprocess"
ScheduledPairs ==
  {p \in (1..Len(scheduled)) \X (1..Len(scheduled)) :
     /\ scheduled[p[1]].id < scheduled[p[2]].id
     /\ scheduled[p[1]].k = scheduled[p[2]].k
     /\ scheduled[p[1]].ctx = scheduled[p[2]].ctx}

\* C3: playback never overlaps: a fragment that arrived later in the same
\* session starts no earlier than the end of every fragment that arrived before
\* it, and no buffer is started at a time before the output clock's current time.
C3_NoOverlap ==
  /\ \A p \in ScheduledPairs :
       scheduled[p[2]].start >= scheduled[p[1]].start + scheduled[p[1]].dur
  /\ \A i \in 1..Len(scheduled) : ~scheduled[i].late

\* C4: a fragment that arrived at clock time t past the cursor is started at
\* exactly t (so the cursor after it is t plus its duration).
C4_UnderrunResync ==
  \A i \in 1..Len(scheduled) :
    scheduled[i].underrun => scheduled[i].start = scheduled[i].at

\* C5: fragments are played in arrival order: of two fragments of one session,
\* the one that arrived first has the earlier start time.
C5_ArrivalOrder ==
  \A p \in ScheduledPairs : scheduled[p[1]].start < scheduled[p[2]].start

\* C6: the pair appended on every turn-complete signal holds the fragments
\* received since the previous one, so that after [user:'Hel', user:'lo',
\* turnComplete, model:'Hi'] the finalized sequence is [('Hello', '')]; both
\* accumulators are empty after a turn-complete signal.
C6_Finalization ==
  /\ transcripts = expected
  /\ turnText = EmptyInterim => currentInterim = EmptyInterim

\* The handlers that call stopConversation.
StopOps == {"stop", "unmount", "onerror", "onclose"}

\* A step into connected leaves connecting.
EntersConnectedFromConnecting ==
  (connectionState' = "connected" /\ connectionState # "connected")
    => connectionState = "connecting"

\* C11: the state never enters connected except directly from connecting, an
\* open signal delivered after stop() included.
C11_ConnectedOnlyFromConnecting == [][EntersConnectedFromConnecting]_vars

\* A step of a handler that calls stopConversation ends in disconnected.
StopStepEndsDisconnected ==
  lastOp' \in StopOps => connectionState' = "disconnected"

\* C12: stop() invoked in any of the four states leaves the state disconnected
\* when it returns: every handler that calls stopConversation (Stop button,
\* unmount cleanup, onerror, onclose), whatever the state it starts in, ends
\* with the state disconnected.
C12_StopLandsInDisconnected == [][StopStepEndsDisconnected]_vars

\* C12 witness: stop() ran in state error.  Without an API key no session is
\* ever opened, so from the first start() on the state is error until the
\* unmount cleanup calls stop().
C12_Witness ==
  /\ ~apiKey /\ nStarts > 0
  /\ lastOp = "unmount" /\ connectionState = "disconnected"

\* A microphone stream that was acquired and whose tracks were never stopped.
LiveStream(k) == mic[k] = "granted" /\ trackStops[k] = 0

\* C13: at most one capture session is active: at most one open remote
\* session, at most one live microphone stream and at most one connected
\* frame-capture processor.
C13_AtMostOneCaptureSession ==
  /\ Cardinality({k \in Sessions : session[k] = "open"}) <= 1
  /\ Cardinality({k \in Sessions : LiveStream(k)}) <= 1
  /\ Cardinality({k \in Sessions : proc[k] = "connected"}) <= 1

\* Every remote session is over and no getUserMedia request is pending: no
\* callback of the pipeline is left to run.
Quiescent ==
  /\ sessionPromiseRef = Null
  /\ \A k \in Sessions : session[k] \in {"none", "closed", "failed"} /\ mic[k] # "pending"

\* C14: nothing is leaked: once the pipeline has been left on any exit path
\* and every pending asynchronous operation has resolved, every microphone
\* stream ever acquired has had its tracks stopped and every processor ever
\* created has been disconnected.
C14_NoLeak ==
  Quiescent => \A k \in Sessions : ~LiveStream(k) /\ proc[k] # "connected"

\* stop() has released session k: it called close() on it or queued the call.
StopCalledFor(k) == sessionCloses[k] > 0 \/ k \in closeQueued

\* A step sends nothing to a session that stop() has released.
NoSendAfterStop ==
  \A k \in Sessions : StopCalledFor(k) => sent'[k] = sent[k]

\* C15: after stop() has been called no further realtime-input frame is sent
\* to the remote session, also when the open handshake or the permission
\* prompt that was in flight resolves afterwards.
C15_NoFramesAfterStop == [][NoSendAfterStop]_vars

\* C16: permission denial forces a full teardown: once the microphone request
\* of session k is rejected the session is closed, its handle cleared and both
\* audio contexts of that start are closed.
C16_DenialTearsDown ==
  \A k \in Sessions :
    mic[k] = "denied"
      => /\ session[k] # "open" /\ sessionPromiseRef # k
         /\ inCloses[k] > 0 /\ outCloses[k] > 0

\* C17: when connectLive throws inside start() (no API key), the state is
\* error and both audio contexts that start() created are closed.
C17_ConnectFailureCleansUp ==
  (~apiKey /\ lastOp = "start")
    => /\ connectionState = "error"
       /\ inCloses[nStarts] > 0 /\ outCloses[nStarts] > 0

\* A rejected decode changes neither the state nor any session, and schedules
\* nothing.
DecodeFailureKeepsSession ==
  failed' # failed
    => /\ connectionState' = connectionState /\ session' = session
       /\ scheduled' = scheduled

\* No failed fragment is scheduled, and a fragment that arrived after a failed
\* one starts no earlier than the end of every fragment that arrived before it.
LaterFragmentsClear ==
  /\ \A i \in 1..Len(scheduled) : scheduled[i].id \notin failed
  /\ \A p \in ScheduledPairs :
       (\E f \in failed : f < scheduled[p[2]].id)
         => scheduled[p[2]].start >= scheduled[p[1]].start + scheduled[p[1]].dur

\* C18: a decode failure of one inbound audio fragment does not abort the
\* session: the state and the sessions are unchanged by it, the failed fragment
\* is not scheduled, and every later fragment is scheduled without overlapping
\* the fragments that arrived before it.
C18_DecodeFailureIsolated ==
  [][DecodeFailureKeepsSession]_vars /\ []LaterFragmentsClear

\* A step that leaves error is a step of a handler that calls stopConversation.
ErrorIsSticky ==
  (connectionState = "error" /\ connectionState' # "error") => lastOp' \in StopOps

\* C19: once the state is error it stays error until stop() is invoked; no
\* other operation, start() in particular, moves the state out of error.
C19_ErrorUntilStop == [][ErrorIsSticky]_vars

\* C19 witness: start() was invoked in state error and the state is still error.
C19_Witness ==
  connectionState = "error" /\ rendered = "error" /\ lastOp = "startIgnored"

\* A step of onclose releases what the refs held.
CloseStepStops ==
  lastOp' = "onclose"
    => /\ connectionState' = "disconnected"
       /\ sessionPromiseRef' = Null /\ streamRef' = Null /\ scriptProcessorRef' = Null
       /\ streamRef # Null => trackStops'[streamRef] > 0
       /\ scriptProcessorRef # Null => proc'[scriptProcessorRef] = "disconnected"

\* C20: a remote close signal in any state results in stop(): after the
\* handler the state is disconnected, the session handle is cleared, the
\* microphone stream the pipeline held is stopped and the processor it held is
\* disconnected.
C20_RemoteCloseStops == [][CloseStepStops]_vars

\* C20 witness: the remote closed a session that no stop() had closed, while
\* its stream was live and its processor connected.
C20_Witness ==
  /\ mounted /\ lastOp = "onclose"
  /\ \E k \in Sessions :
       /\ session[k] = "closed" /\ sessionCloses[k] = 0
       /\ trackStops[k] = 1 /\ proc[k] = "disconnected"

\* ---------------------------------------------- a close() that may throw
\* The session lifecycle with a remote whose close operation may fail.
InitClose ==
  /\ apiKey = TRUE
  /\ closeFails \in BOOLEAN
  /\ InitPipeline
  /\ InitScreens

NextClose ==
  \/ SessionSteps(MaxSubSessions)
  \/ MicrophoneSteps

SpecClose == InitClose /\ [][NextClose]_vars

\* A stop() whose close() throws still releases what the refs hold.
StopStepSurvivesCloseFailure ==
  (closeFails /\ lastOp' \in StopOps)
    => /\ connectionState' = "disconnected"
       /\ streamRef # Null => trackStops'[streamRef] = trackStops[streamRef] + 1
       /\ scriptProcessorRef # Null => proc'[scriptProcessorRef] = "disconnected"
       /\ audioContextRef # Null => inCloses'[audioContextRef] > 0
       /\ outputAudioContextRef # Null => outCloses'[outputAudioContextRef] > 0

\* C21: a failure of the session's close operation during stop() is swallowed:
\* the stream is still stopped, the processor disconnected, both audio contexts
\* closed and the state set to disconnected, never to error.
C21_CloseFailureSwallowed == [][StopStepSurvivesCloseFailure]_vars

\* C21 witness: the Stop button was pressed on a session with a live stream
\* and a connected processor, close() threw (the session is still open), and
\* everything else was released.
C21_Witness ==
  /\ closeFails /\ lastOp = "stop" /\ connectionState = "disconnected"
  /\ \E k \in Sessions :
       /\ session[k] = "open" /\ sessionCloses[k] = 1
       /\ trackStops[k] = 1 /\ proc[k] = "disconnected"
       /\ inCloses[k] = 1 /\ outCloses[k] = 1

\* A turn-complete message that carries a transcript fragment of its own.
TurnCompleteWithFragment ==
  Len(expected') = Len(expected) + 1 /\ Last(expected') # turnText

\* The fragment is in the pair the message finalizes, and nothing is left over.
FragmentFinalizedWithTurn ==
  TurnCompleteWithFragment
    => /\ Len(transcripts') = Len(transcripts) + 1
       /\ Last(transcripts') = Last(expected')
       /\ currentInterim' = EmptyInterim

\* C22: for a message that carries a transcript fragment together with
\* turnComplete, the fragment is part of the pair finalized by that message
\* and both accumulators are empty after it: the fragment is neither lost nor
\* left for the following turn.
C22_ResetAtomicWithAppend == [][FragmentFinalizedWithTurn]_vars

\* C23: between two turn-complete signals each accumulator holds the fragments
\* of its side received since the last one, in arrival order; a fragment of
\* one side does not change the other side's accumulator.
C23_AccumulatorsInArrivalOrder == currentInterim = turnText

\* C23 witness: fragments of both sides have been received in one turn.
C23_Witness ==
  /\ lastOp = "onmessage"
  /\ currentInterim.user = <<"Hel", "lo">> /\ currentInterim.model = <<"Hi">>

\* The sources started on the output context the ref holds (the one the last
\* start() created) whose 'ended' event has not been delivered.
ScheduledUnfinished ==
  {scheduled[i].id : i \in {j \in 1..Len(scheduled) :
                               scheduled[j].ctx = outputAudioContextRef}} \ ended

\* C24: the set of scheduled sources holds exactly the buffers scheduled in
\* the current session that have not finished playing: added when scheduled,
\* removed when playback ends, and empty immediately after start().
C24_ScheduledSetExact ==
  /\ sourcesRef = ScheduledUnfinished
  /\ lastOp = "start" => sourcesRef = {}

\* C24 witness: a second start() found a source of the previous session still
\* unfinished and left the set empty.
C24_Witness ==
  /\ lastOp = "start" /\ nStarts = 2 /\ sourcesRef = {}
  /\ \E i \in 1..Len(scheduled) : scheduled[i].id \notin ended

\* stop() has run and start() has not run since: the output context the ref
\* holds is closed.
StoppedOutput ==
  outputAudioContextRef # Null /\ ~CtxOpen(outCloses, outputAudioContextRef)

\* A step of handleMessage, before or after its await, taken while the output
\* context is closed starts no source and leaves the cursor and the set alone.
LateFragmentDropped ==
  (StoppedOutput /\ lastOp' \in {"onmessage", "decodeDone"})
    => /\ scheduled' = scheduled
       /\ nextStartTimeRef' = nextStartTimeRef
       /\ sourcesRef' = sourcesRef

\* C28: after stop() an inbound audio fragment that arrives late, or whose
\* decoding completes after the stop, is not scheduled: no source is created or
\* started on the closed output context, and the playback cursor and the set
\* of scheduled sources do not change.
C28_LateFragmentNotScheduled == [][LateFragmentDropped]_vars

\* ------------------------------------------------------ SavedContentContext
\* A saved item is its id and its payload.  crypto.randomUUID() never repeats
\* an id: the n-th saveItem call draws id n, so a larger id is a later save.
Contents == {"text", "image"}
Item(id, c) == [id |-> id, c |-> c]

\* A stored value is text: a sequence of tokens.  JSON.stringify writes a list
\* as "[", the items separated by ",", and "]".
Tok(t, id, c) == [t |-> t, id |-> id, c |-> c]
Open == Tok("[", 0, "")
Close == Tok("]", 0, "")
Comma == Tok(",", 0, "")
ItemTok(it) == Tok("item", it.id, it.c)

RECURSIVE Joined(_)
Joined(l) ==
  IF l = <<>> THEN <<>>
  ELSE IF Len(l) = 1 THEN <<ItemTok(l[1])>>
  ELSE <<ItemTok(l[1]), Comma>> \o Joined(Tail(l))

\* SavedContentContext.tsx:26: JSON.stringify(savedItems).
Stringify(l) == <<Open>> \o Joined(l) \o <<Close>>

\* JSON.parse accepts the text of a list and throws on anything else.
Parses(text) ==
  /\ Len(text) >= 2
  /\ text[1] = Open
  /\ text[Len(text)] = Close
  /\ Len(text) = 2 \/ Len(text) % 2 = 1
  /\ \A i \in 2..(Len(text) - 1) :
        IF i % 2 = 0 THEN text[i].t = "item" ELSE text[i] = Comma

Parsed(text) ==
  [n \in 1..((Len(text) - 1) \div 2) |-> Item(text[2 * n].id, text[2 * n].c)]

\* SavedContentContext.tsx:14-22: the initial state of a provider.  getItem
\* returns null for a missing key; the empty text is falsy as well.
Load(st) ==
  IF ~st.present \/ st.text = <<>> THEN <<>>
  ELSE IF Parses(st.text) THEN Parsed(st.text)
  ELSE <<>>

\* SavedContentContext.tsx:24-30: the effect that runs after a render with a
\* new list.  setItem throws when the quota is exceeded, and the catch logs it.
Store(st, l, quotaExceeded) ==
  IF quotaExceeded THEN st ELSE [present |-> TRUE, text |-> Stringify(l)]

\* The new item put at the end of the list.
AppendedItem(newItem, prevItems) == Append(prevItems, newItem)

\* SavedContentContext.tsx:38: [newItem, ...prevItems].
PrependedItem(newItem, prevItems) == <<newItem>> \o prevItems

\* SavedContentContext.tsx:42: prevItems.filter(item => item.id !== id).
RECURSIVE WithoutId(_, _)
WithoutId(prevItems, id) ==
  IF prevItems = <<>> THEN <<>>
  ELSE IF prevItems[1].id = id THEN WithoutId(Tail(prevItems), id)
  ELSE <<prevItems[1]>> \o WithoutId(Tail(prevItems), id)

\* What the browser can hold under the key before the application first runs:
\* nothing, the empty text, or text that is no JSON.
Unparsable == <<Open, ItemTok(Item(1, "text"))>>
StoredBefore ==
  {NoValue, [present |-> TRUE, text |-> <<>>], [present |-> TRUE, text |-> Unparsable]}

UnchangedBySaved == UNCHANGED <<envVars, liveVars, editorVars, chatVars, videoVars>>

\* SavedContentContext.tsx:13-30: a provider is created (the page loads), reads
\* the stored value and, after its first render, writes the list back.
CreateProvider(quotaExceeded) ==
  /\ ~provider
  /\ provider' = TRUE
  /\ savedItems' = Load(storage)
  /\ storage' = Store(storage, Load(storage), quotaExceeded)
  /\ savedOp' = "create"
  /\ savedArg' = 0
  /\ UNCHANGED nextId
  /\ UnchangedBySaved

\* The page is closed: the in-memory list is gone, the stored value stays.
ClosePage ==
  /\ provider
  /\ provider' = FALSE
  /\ savedItems' = <<>>
  /\ savedOp' = "close"
  /\ savedArg' = 0
  /\ UNCHANGED <<storage, nextId>>
  /\ UnchangedBySaved

\* SavedContentContext.tsx:32-39 and the effect of lines 24-30.
saveItem(c, quotaExceeded) ==
  /\ provider
  /\ savedItems' = PrependedItem(Item(nextId, c), savedItems)
  /\ nextId' = nextId + 1
  /\ storage' = Store(storage, savedItems', quotaExceeded)
  /\ savedOp' = "save"
  /\ savedArg' = 0
  /\ UNCHANGED provider
  /\ UnchangedBySaved

\* SavedContentContext.tsx:41-43 and the effect of lines 24-30: filter returns
\* a new array also when no item has the id, so the effect runs again.
deleteItem(id, quotaExceeded) ==
  /\ provider
  /\ savedItems' = WithoutId(savedItems, id)
  /\ storage' = Store(storage, savedItems', quotaExceeded)
  /\ savedOp' = "delete"
  /\ savedArg' = id
  /\ UNCHANGED <<provider, nextId>>
  /\ UnchangedBySaved

InitSaved ==
  /\ apiKey = TRUE
  /\ closeFails = FALSE
  /\ InitPipeline
  /\ provider = FALSE
  /\ savedItems = <<>>
  /\ storage \in StoredBefore
  /\ nextId = 1
  /\ savedOp = "init"
  /\ savedArg = 0
  /\ InitEditor
  /\ InitChat
  /\ InitVideo

NextSaved ==
  \/ \E q \in BOOLEAN : CreateProvider(q)
  \/ ClosePage
  \/ \E c \in Contents, q \in BOOLEAN : nextId <= MaxSaves /\ saveItem(c, q)
  \/ \E id \in 1..MaxSaves, q \in BOOLEAN : deleteItem(id, q)

SpecSaved == InitSaved /\ [][NextSaved]_vars

Mirrored == storage = [present |-> TRUE, text |-> Stringify(savedItems)]

\* A provider created now starts with the list that was in memory before the
\* page was closed; with nothing stored, or text that does not parse, it starts
\* with the empty list.
CreateStep ==
  (~provider /\ provider')
    => /\ savedOp = "close" => savedItems' = Parsed(storage.text)
       /\ (~storage.present \/ ~Parses(storage.text)) => savedItems' = <<>>

\* C26: the persisted list mirrors the in-memory list: after every saveItem or
\* deleteItem the value stored under 'savedContent' is the serialization of the
\* current list, a provider created afterwards starts with exactly that list,
\* and a missing or unparsable stored value yields the empty list.
C26_PersistedMirrorsMemory ==
  /\ [](savedOp \in {"save", "delete"} => Mirrored)
  /\ [][CreateStep]_vars

Ids(l) == {l[i].id : i \in 1..Len(l)}
DistinctIds(l) == \A i, j \in 1..Len(l) : i # j => l[i].id # l[j].id
NewestFirst(l) == \A i, j \in 1..Len(l) : i < j => l[i].id > l[j].id

\* saveItem adds one item with a new id at the front and leaves the rest.
SaveStep ==
  (provider /\ savedOp' = "save" /\ nextId' # nextId)
    => /\ Len(savedItems') = Len(savedItems) + 1
       /\ Tail(savedItems') = savedItems
       /\ savedItems'[1].id \notin Ids(savedItems)

\* deleteItem(id) leaves the items with another id, in their order.
DeleteStep ==
  (provider /\ savedOp' = "delete")
    => /\ savedItems' = SelectSeq(savedItems, LAMBDA it : it.id # savedArg')
       /\ savedArg' \notin Ids(savedItems) => savedItems' = savedItems
       /\ savedArg' \in Ids(savedItems) => Len(savedItems') = Len(savedItems) - 1

\* C27: over any sequence of saveItem and deleteItem calls the saved list
\* holds distinct ids and is ordered newest-saved first; saveItem adds exactly
\* one item at the front and leaves the others; deleteItem(id) removes exactly
\* the item with that id, nothing when the id is absent, and keeps the order
\* of the rest.
C27_SavedListShape ==
  /\ [](DistinctIds(savedItems) /\ NewestFirst(savedItems))
  /\ [][SaveStep /\ DeleteStep]_vars

\* Three items were saved and the middle one was deleted.
C27_Witness ==
  /\ savedOp = "delete"
  /\ savedArg = 2
  /\ Ids(savedItems) = {1, 3}

\* -------------------------------------------------------------- VideoEditor
\* Times are counted in steps of the trim sliders (step={0.1}).  A video file
\* is its name and the duration its metadata reports; every file here has a
\* video/* type.  NotVideo stands for a selection of another type.
FileNames == {"a.mp4", "b.mp4"}
VideoDurations == 2..MaxDuration
VideoFiles == [name : FileNames, dur : VideoDurations]
NotVideo == [name |-> "notes.txt", dur |-> 0]

UnchangedByEditor == UNCHANGED <<envVars, liveVars, savedVars, chatVars, videoVars>>

\* part_001:254-268.  trimEnd and duration keep the values of the previous
\* video until the new one reports its metadata.
handleFileChange(f) ==
  /\ IF f \in VideoFiles
       THEN /\ file' = f
            /\ metaPending' = TRUE
            /\ error' = "null"
            /\ trimStart' = 0
       ELSE /\ error' = "invalid"
            /\ UNCHANGED <<file, metaPending, trimStart>>
  /\ editorOp' = "file"
  /\ UNCHANGED <<duration, trimEnd, project>>
  /\ UnchangedByEditor

\* part_001:243-245.
TrimEndOnMetadata(end, videoDuration) ==
  IF end = 0 \/ end > videoDuration THEN videoDuration ELSE end

\* part_001:236-252: the loadedmetadata listener.  The effect re-registers it
\* whenever videoSrc or trimEnd changes, so it reads the current trimEnd.
handleLoadedMetadata ==
  /\ metaPending
  /\ metaPending' = FALSE
  /\ duration' = file.dur
  /\ trimEnd' = TrimEndOnMetadata(trimEnd, file.dur)
  /\ editorOp' = "metadata"
  /\ UNCHANGED <<file, trimStart, project, error>>
  /\ UnchangedByEditor

\* part_001:277-294.
handleSaveProject ==
  /\ IF file = NoFile
       THEN error' = "no video" /\ UNCHANGED project
       ELSE /\ project' = [fileName |-> file.name, trimStart |-> trimStart,
                           trimEnd |-> trimEnd]
            /\ UNCHANGED error
  /\ editorOp' = "save"
  /\ UNCHANGED <<file, metaPending, duration, trimStart, trimEnd>>
  /\ UnchangedByEditor

\* part_001:296-328: the project is loaded and the user picks f in the file
\* dialog.  The file is accepted by its name and type.
handleLoadProject(f) ==
  /\ IF project = NoProject
       THEN /\ error' = "no project"
            /\ UNCHANGED <<file, metaPending, trimStart, trimEnd>>
       ELSE IF f.name = project.fileName
         THEN /\ file' = f
              /\ metaPending' = TRUE
              /\ error' = "null"
              /\ trimStart' = project.trimStart
              /\ trimEnd' = project.trimEnd
         ELSE /\ error' = "incorrect"
              /\ UNCHANGED <<file, metaPending, trimStart, trimEnd>>
  /\ editorOp' = "load"
  /\ UNCHANGED <<duration, project>>
  /\ UnchangedByEditor

\* part_001:330-334.
handleClearProject ==
  /\ project # NoProject
  /\ project' = NoProject
  /\ editorOp' = "clear"
  /\ UNCHANGED <<file, metaPending, duration, trimStart, trimEnd, error>>
  /\ UnchangedByEditor

\* part_001:336-341, 475: the slider runs from 0 to duration and is rendered
\* once a video is selected.
handleTrimStartChange(value) ==
  /\ file # NoFile
  /\ value \in 0..duration
  /\ trimStart' = IF value < trimEnd THEN value ELSE trimStart
  /\ editorOp' = "trimStart"
  /\ UNCHANGED <<file, metaPending, duration, trimEnd, project, error>>
  /\ UnchangedByEditor

\* part_001:343-348, 479.
handleTrimEndChange(value) ==
  /\ file # NoFile
  /\ value \in 0..duration
  /\ trimEnd' = IF value > trimStart THEN value ELSE trimEnd
  /\ editorOp' = "trimEnd"
  /\ UNCHANGED <<file, metaPending, duration, trimStart, project, error>>
  /\ UnchangedByEditor

InitEditing ==
  /\ apiKey = TRUE
  /\ closeFails = FALSE
  /\ InitPipeline
  /\ InitSavedIdle
  /\ InitEditor
  /\ InitChat
  /\ InitVideo

NextEditor ==
  \/ \E f \in VideoFiles \cup {NotVideo} : handleFileChange(f)
  \/ handleLoadedMetadata
  \/ handleSaveProject
  \/ \E f \in VideoFiles : handleLoadProject(f)
  \/ handleClearProject
  \/ \E v \in 0..MaxDuration : handleTrimStartChange(v)
  \/ \E v \in 0..MaxDuration : handleTrimEndChange(v)

SpecEditor == InitEditing /\ [][NextEditor]_vars

\* The selected video has reported its duration.
DurationKnown == file # NoFile /\ ~metaPending

\* C30: whenever a video with known duration is loaded the trim bounds satisfy
\* 0 <= trimStart < trimEnd <= duration, after any sequence of file
\* selections, metadata-loaded events, project loads and trim slider changes.
C30_TrimBounds ==
  DurationKnown => (0 <= trimStart /\ trimStart < trimEnd /\ trimEnd <= duration)

\* -------------------------------------------------------------------- AiChat
\* A text is a sequence of characters; what the user can have typed.
Inputs == {<<>>, <<" ">>, <<"h">>, <<" ", "h">>, <<"h", " ">>}
Replies == {<<"o", "k">>}
ErrorText == <<"S", "o", "r", "r", "y">>

\* String.prototype.trim: the text without its leading and trailing spaces.
RECURSIVE TrimLeft(_)
TrimLeft(t) ==
  IF t # <<>> /\ t[1] = " " THEN TrimLeft(Tail(t)) ELSE t
RECURSIVE TrimRight(_)
TrimRight(t) ==
  IF t # <<>> /\ t[Len(t)] = " " THEN TrimRight(SubSeq(t, 1, Len(t) - 1)) ELSE t
Trim(t) == TrimRight(TrimLeft(t))

\* A guard that looks at the text only.
SubmitGuardOnText(text, loading) == Trim(text) # <<>>

\* ContentAnalyzer.tsx:294: if (!input.trim() || isLoading) return.
SubmitGuard(text, loading) == Trim(text) # <<>> /\ ~loading

UnchangedByChat == UNCHANGED <<envVars, liveVars, savedVars, editorVars, videoVars>>

\* ContentAnalyzer.tsx:371 and 287-290: the input field changes, or a template
\* is selected.
setInput(text) ==
  /\ input' = text
  /\ chatOp' = "input"
  /\ UNCHANGED <<messages, isLoading, chatInstance, requests>>
  /\ UnchangedByChat

\* ContentAnalyzer.tsx:292-303 and useAistudio.ts:224-235: a submit event, up
\* to the await.  React commits the render at the end of the event, so the
\* guard of the next event reads what this one wrote.  Without an API key the
\* first getChat() throws inside the try: the catch and the finally run in the
\* same step and no call is made.
handleSubmit ==
  /\ IF ~SubmitGuard(input, isLoading)
       THEN UNCHANGED <<messages, input, isLoading, chatInstance, requests>>
       ELSE /\ input' = <<>>
            /\ IF chatInstance \/ apiKey
                 THEN /\ chatInstance' = TRUE
                      /\ messages' = Append(messages, [sender |-> "user", text |-> input])
                      /\ isLoading' = TRUE
                      /\ requests' = Append(requests,
                                            [text |-> input, outcome |-> "pending"])
                 ELSE /\ messages' = messages \o
                           <<[sender |-> "user", text |-> input],
                             [sender |-> "model", text |-> ErrorText]>>
                      /\ isLoading' = FALSE
                      /\ requests' = Append(requests,
                                            [text |-> input, outcome |-> "no client"])
                      /\ UNCHANGED chatInstance
  /\ chatOp' = "submit"
  /\ UnchangedByChat

Pending == requests # <<>> /\ requests[Len(requests)].outcome = "pending"
Settled(outcome) == [requests EXCEPT ![Len(requests)].outcome = outcome]

\* ContentAnalyzer.tsx:303-305, 310-312: sendMessage resolved.
sendMessageResolved(reply) ==
  /\ Pending
  /\ messages' = Append(messages, [sender |-> "model", text |-> reply])
  /\ isLoading' = FALSE
  /\ requests' = Settled("replied")
  /\ chatOp' = "reply"
  /\ UNCHANGED <<input, chatInstance>>
  /\ UnchangedByChat

\* ContentAnalyzer.tsx:306-312: sendMessage rejected.
sendMessageRejected ==
  /\ Pending
  /\ messages' = Append(messages, [sender |-> "model", text |-> ErrorText])
  /\ isLoading' = FALSE
  /\ requests' = Settled("failed")
  /\ chatOp' = "error"
  /\ UNCHANGED <<input, chatInstance>>
  /\ UnchangedByChat

InitChatting ==
  /\ apiKey \in BOOLEAN
  /\ closeFails = FALSE
  /\ InitPipeline
  /\ InitScreens

NextChat ==
  \/ \E text \in Inputs : setInput(text)
  \/ (Len(requests) < MaxSubmits \/ isLoading) /\ handleSubmit
  \/ \E reply \in Replies : sendMessageResolved(reply)
  \/ sendMessageRejected

SpecChat == InitChatting /\ [][NextChat]_vars

\* The k-th accepted submit put the user's message at position 2k - 1, and its
\* answer, once the call has ended, is at position 2k: the reply, or the fixed
\* error text when the call failed or could not be made.
AnsweredOnce ==
  /\ Len(messages) = 2 * Len(requests) - (IF Pending THEN 1 ELSE 0)
  /\ \A k \in 1..Len(requests) :
        /\ Trim(requests[k].text) # <<>>
        /\ messages[2 * k - 1] = [sender |-> "user", text |-> requests[k].text]
        /\ requests[k].outcome # "pending" =>
              /\ messages[2 * k].sender = "model"
              /\ requests[k].outcome = "replied" => messages[2 * k].text \in Replies
              /\ requests[k].outcome # "replied" => messages[2 * k].text = ErrorText

\* A submit while a request is in flight adds no message and makes no call.
SubmitInFlightIgnored ==
  (Pending /\ chatOp' = "submit") => (messages' = messages /\ requests' = requests)

\* C29: every submitted non-empty user message is followed by exactly one model
\* message (the reply, or the fixed error text when the call fails), a submit
\* while a request is in flight adds no message and issues no remote call, and
\* the in-flight flag is false again after every request completes.
C29_OneAnswerPerSubmit ==
  /\ [](AnsweredOnce /\ (isLoading <=> Pending))
  /\ [][SubmitInFlightIgnored]_vars

\* One call failed, the next is in flight, and a submit of a new text has just
\* been ignored.
C29_Witness ==
  /\ chatOp = "submit"
  /\ isLoading
  /\ Trim(input) # <<>>
  /\ Len(requests) = 2
  /\ requests[1].outcome = "failed"

\* ------------------------------------------------------------ generateVideo
AspectRatios == {"16:9", "9:16"}
Terminated == pc \in {"returned", "thrown"}

UnchangedByVideo == UNCHANGED <<envVars, liveVars, savedVars, editorVars, chatVars>>

\* A loop that gives up after the first poll.
LoopContinuesOnce(op, n) == ~op.done /\ n < 1

\* useAistudio.ts:186: while (!operation.done).
LoopContinues(op, n) == ~op.done

\* useAistudio.ts:186-195: the code that runs once an operation has been
\* returned, up to the next await: sleep again, throw, or start the download.
AfterOperation(op) ==
  /\ operation' = op
  /\ IF LoopContinues(op, polls)
       THEN pc' = "sleeping" /\ UNCHANGED thrownBy
       ELSE IF ~op.link
         THEN pc' = "thrown" /\ thrownBy' = "no link"
         ELSE pc' = "downloading" /\ UNCHANGED thrownBy

\* useAistudio.ts:160-184: the call up to the first await.  getGenAI throws
\* when no API key is set.
generateVideo(aspectRatio, image) ==
  /\ pc = "idle" \/ Terminated
  /\ nCalls' = nCalls + 1
  /\ request' = [aspectRatio |-> aspectRatio, image |-> image]
  /\ operation' = NoOperation
  /\ polls' = 0
  /\ waited' = 0
  /\ IF apiKey
       THEN pc' = "starting" /\ thrownBy' = "none"
       ELSE pc' = "thrown" /\ thrownBy' = "no key"
  /\ UnchangedByVideo

\* useAistudio.ts:184: generateVideos resolved with an operation.
StartResolved(op) ==
  /\ pc = "starting"
  /\ AfterOperation(op)
  /\ UNCHANGED <<request, polls, waited, nCalls>>
  /\ UnchangedByVideo

\* useAistudio.ts:184: generateVideos rejected.
StartRejected ==
  /\ pc = "starting"
  /\ pc' = "thrown"
  /\ thrownBy' = "start"
  /\ UNCHANGED <<request, operation, polls, waited, nCalls>>
  /\ UnchangedByVideo

\* useAistudio.ts:187-188: the timer fires and the operation is asked for.
TimerFires ==
  /\ pc = "sleeping"
  /\ pc' = "polling"
  /\ waited' = waited + PollInterval
  /\ polls' = polls + 1
  /\ UNCHANGED <<request, operation, thrownBy, nCalls>>
  /\ UnchangedByVideo

\* useAistudio.ts:188: getVideosOperation resolved.
PollResolved(op) ==
  /\ pc = "polling"
  /\ AfterOperation(op)
  /\ UNCHANGED <<request, polls, waited, nCalls>>
  /\ UnchangedByVideo

\* useAistudio.ts:188: getVideosOperation rejected.
PollRejected ==
  /\ pc = "polling"
  /\ pc' = "thrown"
  /\ thrownBy' = "poll"
  /\ UNCHANGED <<request, operation, polls, waited, nCalls>>
  /\ UnchangedByVideo

\* useAistudio.ts:197-203: the download settles: rejected, answered with an
\* error status, or answered with the video.
DownloadSettled(outcome) ==
  /\ pc = "downloading"
  /\ IF outcome = "ok"
       THEN pc' = "returned" /\ UNCHANGED thrownBy
       ELSE pc' = "thrown" /\ thrownBy' = "download"
  /\ UNCHANGED <<request, operation, polls, waited, nCalls>>
  /\ UnchangedByVideo

\* The operations the remote can return: not done, done with a download link,
\* done without one.
Operations ==
  {[done |-> FALSE, link |-> FALSE], [done |-> TRUE, link |-> TRUE],
   [done |-> TRUE, link |-> FALSE]}

InitGenerating ==
  /\ apiKey \in BOOLEAN
  /\ closeFails = FALSE
  /\ InitPipeline
  /\ InitScreens

NextVideo ==
  \/ \E a \in AspectRatios, image \in BOOLEAN :
        nCalls < MaxCalls /\ generateVideo(a, image)
  \/ \E op \in Operations : StartResolved(op)
  \/ StartRejected
  \/ TimerFires
  \/ \E op \in Operations : (op.done \/ polls <= MaxPolls) /\ PollResolved(op)
  \/ PollRejected
  \/ \E outcome \in {"ok", "status", "rejected"} : DownloadSettled(outcome)

\* The timer of line 187 fires, and the download request settles; the remote
\* is free never to report the operation done.
SpecVideo ==
  /\ InitGenerating
  /\ [][NextVideo]_vars
  /\ WF_vars(TimerFires)
  /\ WF_vars(\E outcome \in {"ok", "status", "rejected"} : DownloadSettled(outcome))

\* The remote has created the operation of the running call.
OperationStarted == pc \notin {"idle", "starting"} /\ thrownBy \notin {"no key", "start"}

\* Every sleep lasts the same interval, and the call goes on polling whatever
\* the number of polls: it has ended only if the operation was reported done
\* or a poll request failed.  A URL is returned only for a done operation with
\* a link, and a done operation without one makes the call throw.
PollsUntilDone ==
  OperationStarted =>
    /\ waited = polls * PollInterval
    /\ Terminated => (operation.done \/ thrownBy = "poll")
    /\ pc = "returned" => (operation.done /\ operation.link)
    /\ (operation.done /\ ~operation.link) => (pc = "thrown" /\ thrownBy = "no link")

\* C25: generateVideo polls the operation at a fixed interval with no attempt
\* cap: it returns or throws only after the operation reports done (or a poll
\* request fails), it ends once the remote has reported done, and a done
\* operation without a download link makes it throw instead of returning a
\* URL.
C25_PollsUntilDone ==
  /\ []PollsUntilDone
  /\ (operation.done ~> Terminated)

\* The call is still waiting after as many polls as the remote was allowed to
\* answer "not done".
C25_Witness ==
  /\ pc = "sleeping"
  /\ polls = MaxPolls
  /\ waited = MaxPolls * PollInterval
  /\ ~operation.done

====
